---- MODULE Spec2Model ----
(***************************************************************************)
(* State-machine model of mmc-mailbox-driver.c: the "virtual EEPROM"       *)
(* driver of the DMMC-STAMP mailbox.                                       *)
(*                                                                         *)
(* Modelled here: the chunk planners (at24_adjust_read_count,              *)
(* at24_adjust_write_count), the retrying transport adapter                *)
(* (at24_regmap_read, at24_regmap_write), the page-lock protocol           *)
(* (lock_if_multiple, unlock_if_locked) and the transaction engine         *)
(* (at24_read, at24_write) with its mutex and runtime-PM reference.        *)
(* Further down: session creation and teardown (mmc_mailbox_probe,         *)
(* mmc_mailbox_remove), the registration in the kernel's pm_power_off hook *)
(* and the shutdown handshake (mmc_mailbox_do_poweroff).                   *)
(*                                                                         *)
(* Machine integers.  TLC's integers stop at 2^31-1, so a C unsigned value *)
(* is held as the integer nearest to it modulo its width:                  *)
(*   unsigned int / u32 : r >= 0 is r,  r < 0 is 2^32 + r                  *)
(*   size_t (64 bit)    : r >= 0 is r,  r < 0 is 2^64 + r                  *)
(* Addition and subtraction of such representatives are then exactly the   *)
(* wrapping C operations, as long as every value stays within 2^30 of a    *)
(* multiple of 2^32, which the input sets below guarantee.  Where a u32 is *)
(* promoted to size_t the value is held as a pair <<z, r>> standing for    *)
(* z * 2^32 + r (mod 2^64).                                                *)
(***************************************************************************)
EXTENDS Integers, Sequences, FiniteSets, TLC

(***************************************************************************)
(* Program constants                                                       *)
(***************************************************************************)
MB_LOCK_OFFS == 2047
MB_LOCK_FLAG == 1
EINVAL == 22
ETIMEDOUT == 110
\* at24_data_dmmc_stamp_mailbox.byte_len = 16384 / 8
ChipByteLen == 2048
\* page_size when the "pagesize" property is absent
DefaultPageSize == 16
\* default of the io_limit module parameter
DefaultIoLimit == 128
ENODEV == 19
I2C_SMBUS_BLOCK_MAX == 32
ENOMEM == 12
\* number of values of the u16 field page_size
U16_RANGE == 65536
MB_FPGA_STATUS_OFFS == 2046
\* BIT(2)
MB_FPGA_STATUS_SHDN_FINISHED == 4

(***************************************************************************)
(* Bounds of the model                                                     *)
(***************************************************************************)
\* at24_write_timeout (module parameter, in jiffies at HZ = 1000) is drawn
\* from 0..MaxTimeout
MaxTimeout == 1
\* a backoff sleep (usleep_range(1000, 1500), plus scheduling delay) lets
\* 1..MaxSleep jiffies pass
MaxSleep == 2
\* request lengths 0..MaxCount are enumerated (plus the ones in ExtraCounts)
MaxCount == 3
\* successful data chunks per call (only a wrapped, huge count gets there)
MaxChunks == 4
\* transactions begun while another one is still in flight
MaxTxn == 2
\* planner inputs
MaxPlanOff == 20
MaxPlanCount == 5
MaxPlanPage == 5
\* mailbox sessions created by mmc_mailbox_probe in one behaviour
MaxSessions == 3

(***************************************************************************)
(* Machine arithmetic                                                      *)
(***************************************************************************)
\* u32 -> size_t (zero extension)
ZExt(u) == <<IF u < 0 THEN 1 ELSE 0, u>>

\* size_t value of a representative that is already a size_t
SizeT(r) == <<0, r>>

\* size_t addition (wraps modulo 2^64)
SAdd(a, b) == <<a[1] + b[1], a[2] + b[2]>>

\* a size_t pair that lies just below 2^64
STop(a) == a[1] = 0 /\ a[2] < 0

\* unsigned comparison a > b of two size_t values
SGt(a, b) ==
    IF STop(a) # STop(b)
    THEN STop(a)
    ELSE a[1] > b[1] \/ (a[1] = b[1] /\ a[2] > b[2])

\* 2^32 mod y, for 0 < y < 2^15
Pow32Mod(y) == (((65536 % y) * (65536 % y)) % y)

\* the kernel's roundup(x, y) == (((x) + (y - 1)) / y) * y in unsigned int
\* arithmetic: the sum wraps modulo 2^32 before the division
roundup(x, y) ==
    LET t == x + (y - 1)
    IN  IF t >= 0
        THEN (t \div y) * y
        ELSE t - ((Pow32Mod(y) + t) % y)

(***************************************************************************)
(* Chunk planners                                                          *)
(***************************************************************************)
\* at24_adjust_read_count: count clamped to the io_limit module parameter
\* (variant: the read length also stops at the next multiple of io_limit)
ReadCountAligned(io_limit, offset, cnt) ==
    LET c1 == IF SGt(SizeT(cnt), ZExt(io_limit)) THEN io_limit ELSE cnt
        next == roundup(offset + 1, io_limit)
    IN  IF SGt(SAdd(ZExt(offset), SizeT(c1)), ZExt(next))
        THEN next - offset
        ELSE c1

at24_adjust_read_count(io_limit, offset, cnt) ==
    IF SGt(SizeT(cnt), ZExt(io_limit)) THEN io_limit ELSE cnt

\* (variant: the page boundary is ignored)
WriteCountNoPage(wmax, psize, offset, cnt) ==
    IF SGt(SizeT(cnt), ZExt(wmax)) THEN wmax ELSE cnt

\* at24_adjust_write_count: count clamped to write_max, then to the distance
\* to the next page boundary.  offset is an unsigned int, cnt a size_t; the
\* comparison offset + count > next_page is made in size_t, the subtraction
\* next_page - offset in unsigned int.
at24_adjust_write_count(wmax, psize, offset, cnt) ==
    LET c1 == IF SGt(SizeT(cnt), ZExt(wmax)) THEN wmax ELSE cnt
        next_page == roundup(offset + 1, psize)
    IN  IF SGt(SAdd(ZExt(offset), SizeT(c1)), ZExt(next_page))
        THEN next_page - offset
        ELSE c1

(***************************************************************************)
(* State                                                                   *)
(***************************************************************************)
VARIABLES
    mmc_mailbox_io_limit, \* module parameter io_limit after mmc_mailbox_init
    at24_write_timeout,   \* module parameter write_timeout, in jiffies
    byte_len,             \* struct at24_data: region size
    page_size,            \* struct at24_data
    write_max,            \* struct at24_data
    lock,                 \* struct at24_data: owner of the mutex, or "none"
    usage_count,          \* runtime-PM usage counter of the device
    transport_dead,       \* environment: every regmap transfer fails
    pc,                   \* per caller: position in at24_read / at24_write
    op,                   \* per caller: "read" or "write"
    off,                  \* per caller: off (unsigned int)
    count,                \* per caller: count (size_t)
    locked,               \* per caller: the local "locked"
    ret,                  \* per caller: the local "ret", then the result
    elapsed,              \* per caller: jiffies since "timeout" was computed
    rec,                  \* per caller: what the current/last call did
    trace,                \* transport calls recorded since the bus was idle
    ntxn,                 \* calls begun since the bus was idle
    plan,                 \* planner harness: inputs and result
    nsess,                \* sessions (struct at24_data) allocated so far
    live,                 \* sessions created and not torn down
    pm_power_off,         \* the kernel's global power-off hook
    mmc_mb_pwroff_inst,   \* session registered for shutdown, 0 is NULL
    last_probe,           \* arguments and outcome of the last probe
    pwr                   \* mmc_mailbox_do_poweroff: position and actions

vars == <<mmc_mailbox_io_limit, at24_write_timeout, byte_len, page_size,
          write_max, lock, usage_count, transport_dead, pc, op, off, count,
          locked, ret, elapsed, rec, trace, ntxn, plan, nsess, live,
          pm_power_off, mmc_mb_pwroff_inst, last_probe, pwr>>

\* the device set, the shutdown registration and the shutdown handler
devvars == <<nsess, live, pm_power_off, mmc_mb_pwroff_inst, last_probe, pwr>>

\* what at24_read / at24_write never change
cfgvars == <<mmc_mailbox_io_limit, at24_write_timeout, byte_len, page_size,
             write_max, transport_dead, devvars>>

Callers == {"a", "b"}

\* io_limit values after rounddown_pow_of_two
IoLimits == {4, DefaultIoLimit}

\* offsets (unsigned int) a caller may pass: inside the region, at its end,
\* beyond it, and 0xFFFFFFFF
U32_MAX == -1
Offsets == {0, 10, MB_LOCK_OFFS - 1, MB_LOCK_OFFS, ChipByteLen, ChipByteLen + 1, U32_MAX}

\* counts (size_t) a caller may pass: 0..MaxCount, the 12 bytes of the
\* two-page write, and SIZE_MAX, SIZE_MAX - 1
SIZE_MAX == -1
ExtraCounts == {12, SIZE_MAX, SIZE_MAX - 1}
Counts == (0..MaxCount) \cup ExtraCounts

\* results of pm_runtime_get_sync: 0 resumed, 1 already active, < 0 error
PmResults == {0, 1, -13}

NoRec == [txn |-> 0, op |-> "none", off0 |-> 0, count0 |-> 0,
          took_lock |-> FALSE, pm_ret |-> 0, natt |-> 0, xfers |-> <<>>]

NoPlan == [kind |-> "none"]

\* values of the hook pm_power_off: NULL, &mmc_mailbox_do_poweroff, or the
\* handler of another subsystem
NULL == "NULL"
Handler == "mmc_mailbox_do_poweroff"
Other == "other"

\* a u32 device property: present with a value, or not present
Prop(v) == [present |-> TRUE, val |-> v]
Absent == [present |-> FALSE, val |-> 0]

NoProbe == [done |-> FALSE]

\* mmc_mailbox_do_poweroff has not been called
PwrIdle == [pc |-> "idle", log |-> <<>>]

(***************************************************************************)
(* Initial state: the module is loaded (mmc_mailbox_init) and one session  *)
(* has been created with the default properties (mmc_mailbox_probe).       *)
(***************************************************************************)
\* mmc_mailbox_probe: write_max = min_t(unsigned int, page_size, io_limit)
\* (psize is a u32, io_limit is below 2^31)
ProbeWriteMax(psize, io_limit) ==
    IF psize >= 0 /\ psize < io_limit THEN psize ELSE io_limit

InitSession ==
    /\ mmc_mailbox_io_limit \in IoLimits
    /\ at24_write_timeout \in 0..MaxTimeout
    /\ byte_len = ChipByteLen
    /\ page_size = DefaultPageSize
    /\ write_max = ProbeWriteMax(page_size, mmc_mailbox_io_limit)
    /\ transport_dead \in BOOLEAN
    /\ lock = "none"
    /\ usage_count = 0
    /\ pc = [c \in Callers |-> "idle"]
    /\ op = [c \in Callers |-> "none"]
    /\ off = [c \in Callers |-> 0]
    /\ count = [c \in Callers |-> 0]
    /\ locked = [c \in Callers |-> FALSE]
    /\ ret = [c \in Callers |-> 0]
    /\ elapsed = [c \in Callers |-> 0]
    /\ rec = [c \in Callers |-> NoRec]
    /\ trace = <<>>
    /\ ntxn = 0
    /\ nsess = 1
    /\ live = {1}
    /\ pm_power_off = Handler
    /\ mmc_mb_pwroff_inst = 1
    /\ last_probe = NoProbe
    /\ pwr = PwrIdle

Init ==
    /\ InitSession
    /\ plan = NoPlan

\* the default module parameters and a transport that can succeed
InitConc ==
    /\ Init
    /\ mmc_mailbox_io_limit = DefaultIoLimit
    /\ at24_write_timeout \in {0, 1}
    /\ ~transport_dead

(***************************************************************************)
(* Retrying transport adapter: one iteration of the do-while loop of       *)
(* at24_regmap_read / at24_regmap_write.                                   *)
(***************************************************************************)
\* (variant: the loop condition off by one, time_before_eq)
TimeBeforeOrAt(read_time, timeout) == read_time <= timeout

\* time_before(read_time, timeout), both relative to the jiffies value at
\* which "timeout = jiffies + msecs_to_jiffies(at24_write_timeout)" was
\* computed
time_before(read_time, timeout) == read_time < timeout

\* jiffies after the backoff sleep; values at or past the deadline are
\* indistinguishable to the loop and are held as the deadline
AfterSleep(now, d, timeout) ==
    IF now + d > timeout THEN timeout ELSE now + d

\* The transport may succeed unless the environment is the always-failing one
MaySucceed(ok) == ok => ~transport_dead

\* (variant: a failed attempt is never repeated)
IterationNoRetry(ok, now, timeout) == IF ok THEN "done" ELSE "timeout"

\* The outcome of one loop iteration started at jiffies "now" (= read_time):
\* "done" (return count), "again" (loop) or "timeout" (return -ETIMEDOUT)
Iteration(ok, now, timeout) ==
    IF ok THEN "done"
    ELSE IF time_before(now, timeout) THEN "again" ELSE "timeout"

\* Every iteration is one transport call: the instrumented transport records
\* the transaction it belongs to
Recorded(c) ==
    /\ trace' = Append(trace, rec[c].txn)

\* a finished call of at24_regmap_read / at24_regmap_write for a data chunk
Xfer(kind, o, n, ok) == [kind |-> kind, off |-> o, len |-> n, ok |-> ok]

\* a finished control write of the byte v to MB_LOCK_OFFS
CtlXfer(kind, v, n, ok) ==
    [kind |-> kind, off |-> MB_LOCK_OFFS, len |-> n, val |-> v, ok |-> ok]

DataXfers(c) == SelectSeq(rec[c].xfers, LAMBDA x : x.kind = "data")

(***************************************************************************)
(* Transaction engine: at24_read / at24_write                              *)
(***************************************************************************)
\* "off + count > mmc_mailbox->byte_len": off (unsigned int) is promoted to
\* size_t and the sum wraps modulo 2^64
RangeInvalid(o, cnt, blen) ==
    SGt(SAdd(ZExt(o), SizeT(cnt)), ZExt(blen))

\* (variant: at24_read with the range check made before the count check)
ReadCheckRangeFirst(o, cnt, blen) ==
    IF RangeInvalid(o, cnt, blen) THEN <<"ret", -EINVAL>>
    ELSE IF cnt = 0 THEN <<"ret", 0>>
    ELSE <<"go", 0>>

\* (variant: at24_read without the range check)
ReadCheckNoRange(o, cnt, blen) ==
    IF cnt = 0 THEN <<"ret", 0>> ELSE <<"go", 0>>

\* at24_read, the checks before any side effect: <<"ret", v>> returns v,
\* <<"go", 0>> goes on
at24_read_check(o, cnt, blen) ==
    IF cnt = 0 THEN <<"ret", 0>>
    ELSE IF RangeInvalid(o, cnt, blen) THEN <<"ret", -EINVAL>>
    ELSE <<"go", 0>>

\* at24_write, the checks before any side effect
at24_write_check(o, cnt, blen) ==
    IF cnt = 0 THEN <<"ret", -EINVAL>>
    ELSE IF RangeInvalid(o, cnt, blen) THEN <<"ret", -EINVAL>>
    ELSE <<"go", 0>>

Idle(c) == pc[c] \in {"idle", "done"}

\* Entry of at24_read / at24_write up to the call of pm_runtime_get_sync
Call(c, o, of, cnt) ==
    /\ Idle(c)
    /\ LET quiet == \A d \in Callers \ {c} : Idle(d)
           t == IF quiet THEN 1 ELSE ntxn + 1
           chk == IF o = "read" THEN at24_read_check(of, cnt, byte_len)
                  ELSE at24_write_check(of, cnt, byte_len)
       IN  /\ quiet \/ ntxn < MaxTxn
           /\ ntxn' = t
           /\ trace' = IF quiet THEN <<>> ELSE trace
           /\ rec' = [rec EXCEPT ![c] = [NoRec EXCEPT !.txn = t, !.op = o,
                                            !.off0 = of, !.count0 = cnt]]
           /\ pc' = [pc EXCEPT ![c] = IF chk[1] = "ret" THEN "done" ELSE "pm"]
           /\ ret' = [ret EXCEPT ![c] = chk[2]]
    /\ op' = [op EXCEPT ![c] = o]
    /\ off' = [off EXCEPT ![c] = of]
    /\ count' = [count EXCEPT ![c] = cnt]
    /\ locked' = [locked EXCEPT ![c] = FALSE]
    /\ elapsed' = [elapsed EXCEPT ![c] = 0]
    /\ UNCHANGED <<cfgvars, lock, usage_count, plan>>

\* (variant: the reference is not dropped)
PmRefKept(u) == u

\* pm_runtime_put_noidle / pm_runtime_put: drop the usage reference
pm_runtime_put_noidle(u) == u - 1

pm_runtime_put(u) == u - 1

\* ret = pm_runtime_get_sync(dev); if (ret < 0) { pm_runtime_put_noidle(dev);
\* return ret; }   The usage counter is raised whatever the result.
PmGetSync(c) ==
    /\ pc[c] = "pm"
    /\ \E r \in PmResults :
         IF r < 0
         THEN /\ usage_count' = pm_runtime_put_noidle(usage_count + 1)
              /\ ret' = [ret EXCEPT ![c] = r]
              /\ rec' = [rec EXCEPT ![c].pm_ret = r]
              /\ pc' = [pc EXCEPT ![c] = "done"]
         ELSE /\ usage_count' = usage_count + 1
              /\ ret' = [ret EXCEPT ![c] = r]
              /\ rec' = rec
              /\ pc' = [pc EXCEPT ![c] = "mutex"]
    /\ UNCHANGED <<cfgvars, lock, op, off, count, locked, elapsed, trace,
                   ntxn, plan>>

\* (variant: no mutual exclusion)
MutexNeverBlocks(l) == TRUE

\* mutex_lock blocks until the mutex is free
mutex_available(l) == l = "none"

\* (variant: "if (count < 1) return false;")
LockIfAny(cnt) == cnt # 0

\* lock_if_multiple: "if (count <= 1) return false;" (count is a size_t)
lock_if_multiple(cnt) == ~(cnt \in {0, 1})

\* mutex_lock(&mmc_mailbox->lock), then the entry of lock_if_multiple
MutexLock(c) ==
    /\ pc[c] = "mutex"
    /\ mutex_available(lock)
    /\ lock' = c
    /\ rec' = [rec EXCEPT ![c].took_lock = TRUE]
    /\ pc' = [pc EXCEPT ![c] = IF lock_if_multiple(count[c])
                                THEN "lock_set" ELSE "xfer"]
    /\ elapsed' = [elapsed EXCEPT ![c] = 0]
    /\ UNCHANGED <<cfgvars, usage_count, op, off, count, locked, ret, trace,
                   ntxn, plan>>

\* length of the one-byte control writes, as at24_regmap_write plans it
CtlLen == at24_adjust_write_count(write_max, page_size, MB_LOCK_OFFS, 1)

\* (variant: a failed lock-set write ends the call on the error path)
LockSetErrorFatal(ok) == IF ok THEN "xfer" ELSE "fail"

\* where at24_read / at24_write go after lock_if_multiple, whose write
\* succeeded (ok) or not: the chunk loop in both cases
AfterLockSet(ok) == "xfer"

\* lock_if_multiple: one iteration of at24_regmap_write(&tmp, MB_LOCK_OFFS, 1)
\* with tmp = MB_LOCK_FLAG; the result of the write is dropped and the
\* function returns true
LockSetWrite(c) ==
    /\ pc[c] = "lock_set"
    /\ \E ok \in BOOLEAN, d \in 1..MaxSleep :
         /\ MaySucceed(ok)
         /\ LET it == Iteration(ok, elapsed[c], at24_write_timeout)
            IN  IF it = "again"
                THEN /\ elapsed' = [elapsed EXCEPT ![c] =
                            AfterSleep(elapsed[c], d, at24_write_timeout)]
                     /\ rec' = [rec EXCEPT ![c].natt = @ + 1]
                     /\ UNCHANGED <<pc, locked>>
                ELSE /\ elapsed' = [elapsed EXCEPT ![c] = 0]
                     /\ rec' = [rec EXCEPT ![c].natt = @ + 1,
                                  ![c].xfers = Append(@,
                                      CtlXfer("lock_set", MB_LOCK_FLAG, CtlLen, ok))]
                     /\ locked' = [locked EXCEPT ![c] = TRUE]
                     /\ pc' = [pc EXCEPT ![c] = AfterLockSet(ok)]
    /\ Recorded(c)
    /\ UNCHANGED <<cfgvars, lock, usage_count, op, off, count, ret, ntxn, plan>>

\* the chunk length at24_regmap_read / at24_regmap_write plan for the
\* caller's current off and count
ChunkLen(c) ==
    IF op[c] = "read"
    THEN at24_adjust_read_count(mmc_mailbox_io_limit, off[c], count[c])
    ELSE at24_adjust_write_count(write_max, page_size, off[c], count[c])

\* (variant: the error of a chunk transfer is dropped and the call ends as
\* a successful one does)
ChunkErrorDropped == "unlock"

\* where at24_read / at24_write go when a chunk transfer returns an error:
\* "fail" is mutex_unlock; pm_runtime_put; return ret
ChunkErrorPath == "fail"

\* where they go when the chunk loop ends: unlock_if_locked, then
\* mutex_unlock
AfterLoop(l) == IF l THEN "lock_clear" ELSE "unlock"

\* One iteration of at24_regmap_read / at24_regmap_write for the next data
\* chunk, and, when the call returns, the body of the while (count) loop
DataChunk(c) ==
    /\ pc[c] = "xfer"
    /\ \E ok \in BOOLEAN, d \in 1..MaxSleep :
         /\ MaySucceed(ok)
         /\ ok => Len(DataXfers(c)) < MaxChunks
         /\ LET it == Iteration(ok, elapsed[c], at24_write_timeout)
                n == ChunkLen(c)
            IN  CASE it = "again" ->
                     /\ elapsed' = [elapsed EXCEPT ![c] =
                            AfterSleep(elapsed[c], d, at24_write_timeout)]
                     /\ rec' = [rec EXCEPT ![c].natt = @ + 1]
                     /\ UNCHANGED <<pc, off, count, ret>>
                  [] it = "timeout" ->
                     /\ elapsed' = [elapsed EXCEPT ![c] = 0]
                     /\ rec' = [rec EXCEPT ![c].natt = @ + 1,
                                  ![c].xfers = Append(@,
                                      Xfer("data", off[c], n, FALSE))]
                     /\ ret' = [ret EXCEPT ![c] = -ETIMEDOUT]
                     /\ pc' = [pc EXCEPT ![c] = ChunkErrorPath]
                     /\ UNCHANGED <<off, count>>
                  [] it = "done" ->
                     /\ elapsed' = [elapsed EXCEPT ![c] = 0]
                     /\ rec' = [rec EXCEPT ![c].natt = @ + 1,
                                  ![c].xfers = Append(@,
                                      Xfer("data", off[c], n, TRUE))]
                     /\ ret' = [ret EXCEPT ![c] = n]
                     /\ off' = [off EXCEPT ![c] = @ + n]
                     /\ count' = [count EXCEPT ![c] = @ - n]
                     /\ pc' = [pc EXCEPT ![c] =
                            IF count[c] - n # 0 THEN "xfer"
                            ELSE AfterLoop(locked[c])]
    /\ Recorded(c)
    /\ UNCHANGED <<cfgvars, lock, usage_count, op, locked, ntxn, plan>>

\* unlock_if_locked: one iteration of at24_regmap_write(&tmp, MB_LOCK_OFFS, 1)
\* with tmp = 0; the result of the write is dropped
LockClearWrite(c) ==
    /\ pc[c] = "lock_clear"
    /\ \E ok \in BOOLEAN, d \in 1..MaxSleep :
         /\ MaySucceed(ok)
         /\ LET it == Iteration(ok, elapsed[c], at24_write_timeout)
            IN  IF it = "again"
                THEN /\ elapsed' = [elapsed EXCEPT ![c] =
                            AfterSleep(elapsed[c], d, at24_write_timeout)]
                     /\ rec' = [rec EXCEPT ![c].natt = @ + 1]
                     /\ UNCHANGED pc
                ELSE /\ elapsed' = [elapsed EXCEPT ![c] = 0]
                     /\ rec' = [rec EXCEPT ![c].natt = @ + 1,
                                  ![c].xfers = Append(@,
                                      CtlXfer("lock_clear", 0, CtlLen, ok))]
                     /\ pc' = [pc EXCEPT ![c] = "unlock"]
    /\ Recorded(c)
    /\ UNCHANGED <<cfgvars, lock, usage_count, op, off, count, locked, ret,
                   ntxn, plan>>

\* (variant: the mutex is not released)
MutexKept(l) == l

\* mutex_unlock(&mmc_mailbox->lock): the mutex has no owner
mutex_unlock(l) == "none"

\* error path of the chunk loop: mutex_unlock; pm_runtime_put; return ret
FailReturn(c) ==
    /\ pc[c] = "fail"
    /\ lock' = mutex_unlock(lock)
    /\ usage_count' = pm_runtime_put(usage_count)
    /\ pc' = [pc EXCEPT ![c] = "done"]
    /\ UNCHANGED <<cfgvars, op, off, count, locked, ret, elapsed, rec, trace,
                   ntxn, plan>>

\* end of at24_read / at24_write: mutex_unlock; pm_runtime_put; return 0
Return(c) ==
    /\ pc[c] = "unlock"
    /\ lock' = mutex_unlock(lock)
    /\ usage_count' = pm_runtime_put(usage_count)
    /\ ret' = [ret EXCEPT ![c] = 0]
    /\ pc' = [pc EXCEPT ![c] = "done"]
    /\ UNCHANGED <<cfgvars, op, off, count, locked, elapsed, rec, trace,
                   ntxn, plan>>

\* a step of a call in flight
Progress(c) ==
    \/ PmGetSync(c)
    \/ MutexLock(c)
    \/ LockSetWrite(c)
    \/ DataChunk(c)
    \/ LockClearWrite(c)
    \/ FailReturn(c)
    \/ Return(c)

(***************************************************************************)
(* Specifications                                                          *)
(***************************************************************************)
\* One caller, the full input sets
Next ==
    \/ \E o \in {"read", "write"}, of \in Offsets, cnt \in Counts :
         Call("a", o, of, cnt)
    \/ Progress("a")

Spec == Init /\ [][Next]_vars

\* The thread of a call in flight keeps running
SpecFair == Spec /\ WF_vars(Progress("a"))

\* Two callers on the same session, small requests
ConcOffsets == {0}
ConcCounts == {0, 2}

NextConc ==
    \E c \in Callers :
        \/ \E o \in {"read", "write"}, of \in ConcOffsets, cnt \in ConcCounts :
             Call(c, o, of, cnt)
        \/ Progress(c)

SpecConc == InitConc /\ [][NextConc]_vars

\* Both threads keep running, and a thread waiting in mutex_lock gets the
\* mutex if it is free again and again (the kernel mutex hands over to its
\* waiters)
\* (here with a deadline of 0 jiffies: one attempt per transfer)
InitConcFair ==
    /\ InitConc
    /\ at24_write_timeout = 0

SpecConcFair ==
    /\ InitConcFair
    /\ [][NextConc]_vars
    /\ \A c \in Callers : WF_vars(Progress(c)) /\ SF_vars(MutexLock(c))

(***************************************************************************)
(* Planner harness: the planners applied to enumerated arguments           *)
(***************************************************************************)
\* offsets at the top of the unsigned int range: 0xFFFFFFFF - k
TopOffsets == {U32_MAX - k : k \in 0..MaxPlanOff}

PlanOffsets == (0..MaxPlanOff) \cup TopOffsets

PlanCounts == (1..MaxPlanCount) \cup {SIZE_MAX}

PlanPages == (1..MaxPlanPage) \cup {DefaultPageSize}

PlanInputs ==
    [kind : {"read", "write"}, wmax : PlanPages, psize : PlanPages,
     io_limit : IoLimits, offset : PlanOffsets, cnt : PlanCounts]

InitPlan ==
    /\ InitSession
    /\ mmc_mailbox_io_limit = DefaultIoLimit
    /\ at24_write_timeout = 0
    /\ ~transport_dead
    /\ \E in \in PlanInputs : plan = [in |-> in, done |-> FALSE, res |-> 0]

\* count = at24_adjust_write_count(mmc_mailbox, offset, count)
PlanWrite ==
    /\ plan.in.kind = "write"
    /\ ~plan.done
    /\ plan' = [plan EXCEPT !.done = TRUE,
                   !.res = at24_adjust_write_count(plan.in.wmax, plan.in.psize,
                                                   plan.in.offset, plan.in.cnt)]
    /\ UNCHANGED <<cfgvars, lock, usage_count, pc, op, off, count, locked,
                   ret, elapsed, rec, trace, ntxn>>

\* count = at24_adjust_read_count(mmc_mailbox, offset, count)
PlanRead ==
    /\ plan.in.kind = "read"
    /\ ~plan.done
    /\ plan' = [plan EXCEPT !.done = TRUE,
                   !.res = at24_adjust_read_count(plan.in.io_limit,
                                                  plan.in.offset, plan.in.cnt)]
    /\ UNCHANGED <<cfgvars, lock, usage_count, pc, op, off, count, locked,
                   ret, elapsed, rec, trace, ntxn>>

NextPlan == PlanWrite \/ PlanRead

SpecPlan == InitPlan /\ [][NextPlan]_vars

(***************************************************************************)
(* Properties                                                              *)
(***************************************************************************)
\* the call of caller c has entered the critical section
InTxn(c) == rec[c].took_lock

\* a request length for which the page lock is used: count > 1 as a size_t
Multi(cnt) == cnt > 1 \/ cnt < 0

CtlXfers(c, kind) == SelectSeq(rec[c].xfers, LAMBDA x : x.kind = kind)

\* C1: with two callers on one session, the transport calls of one
\* transaction (lock-set write, data chunks, retries, lock-clear write) are
\* never interleaved with those of another: in the recorded call sequence the
\* calls of each transaction are contiguous.
C1_NoInterleaving ==
    \A i, j, k \in 1..Len(trace) :
        (i < j /\ j < k /\ trace[i] = trace[k]) => trace[j] = trace[i]

\* C1 witness: two transactions that overlapped in time have each made at
\* least three transport calls
C1_Witness ==
    /\ ntxn >= 2
    /\ Cardinality({i \in 1..Len(trace) : trace[i] = 1}) >= 3
    /\ Cardinality({i \in 1..Len(trace) : trace[i] = 2}) >= 3

\* C2: a transaction with count > 1 issues exactly one lock-set write
\* (MB_LOCK_FLAG to MB_LOCK_OFFS, retries counted once) before its first data
\* chunk and, when it succeeds, exactly one lock-clear write (0 to
\* MB_LOCK_OFFS) after its last data chunk; a call with count <= 1 issues no
\* control write at all.
C2_LockBracket ==
    \A c \in Callers :
        LET x == rec[c].xfers
        IN  IF Multi(rec[c].count0)
            THEN /\ pc[c] = "lock_set" => x = <<>>
                 /\ (InTxn(c) /\ pc[c] # "lock_set") =>
                        /\ Len(x) >= 1
                        /\ x[1].kind = "lock_set"
                        /\ x[1].off = MB_LOCK_OFFS /\ x[1].val = MB_LOCK_FLAG
                        /\ Len(CtlXfers(c, "lock_set")) = 1
                 /\ (InTxn(c) /\ pc[c] = "done" /\ ret[c] = 0) =>
                        /\ x[Len(x)].kind = "lock_clear"
                        /\ x[Len(x)].off = MB_LOCK_OFFS /\ x[Len(x)].val = 0
                        /\ Len(CtlXfers(c, "lock_clear")) = 1
                        /\ Len(DataXfers(c)) = Len(x) - 2
            ELSE /\ pc[c] \notin {"lock_set", "lock_clear"}
                 /\ \A i \in 1..Len(x) : x[i].kind = "data"

\* C2 witness: a successful transaction with count > 1 and two data chunks
C2_Witness ==
    \E c \in Callers :
        /\ pc[c] = "done" /\ ret[c] = 0 /\ InTxn(c)
        /\ rec[c].count0 > 1
        /\ Len(DataXfers(c)) >= 2

\* C3: when a data chunk of a call with count > 1 fails, the lock-clear
\* write is issued before the call returns the error.  (The code returns
\* without it.)
C3_ClearOnError ==
    \A c \in Callers :
        (pc[c] = "done" /\ InTxn(c) /\ ret[c] < 0 /\ rec[c].count0 > 1) =>
            /\ locked[c]
            /\ Len(CtlXfers(c, "lock_clear")) >= 1

\* the request range ends beyond the region: offset + count > region_size
\* as numbers (an offset at the top of the unsigned int range, or a count at
\* the top of the size_t range, is far beyond any region)
BeyondRegion(c) ==
    \/ rec[c].off0 < 0
    \/ rec[c].count0 < 0
    \/ rec[c].off0 + rec[c].count0 > byte_len

\* offset + count does not fit a size_t: the sum the code computes wraps
SumWraps(c) ==
    rec[c].count0 < 0 /\ (rec[c].off0 < 0 \/ rec[c].off0 + rec[c].count0 >= 0)

\* the call returned -EINVAL before any side effect
RejectedEarly(c) ==
    /\ pc[c] = "done"
    /\ ret[c] = -EINVAL
    /\ rec[c].natt = 0
    /\ ~rec[c].took_lock

C5_ZeroLength ==
    \A c \in Callers :
        (rec[c].op # "none" /\ rec[c].count0 = 0) =>
            /\ pc[c] = "done"
            /\ rec[c].natt = 0
            /\ ~rec[c].took_lock
            /\ rec[c].op = "write" => ret[c] = -EINVAL
            /\ rec[c].op = "read" => ret[c] = 0

\* C5 witness: a zero-length read at an offset beyond the region returned
\* success
C5_Witness ==
    \E c \in Callers :
        /\ rec[c].op = "read" /\ rec[c].count0 = 0
        /\ rec[c].off0 > byte_len
        /\ pc[c] = "done" /\ ret[c] = 0

\* offset mod page_size as numbers, for an unsigned int offset
OffsetMod(offset, psize) ==
    IF offset >= 0 THEN offset % psize ELSE (Pow32Mod(psize) + offset) % psize

\* round_up(offset + 1, page_size) - offset as numbers: the bytes from
\* offset to the next page boundary
ToPageEnd(offset, psize) == psize - OffsetMod(offset, psize)

\* C6: for all offset >= 0, count > 0, page_size > 0 and max_chunk > 0,
\* at24_adjust_write_count returns a length L with L <= count,
\* L <= max_chunk and L <= round_up(offset + 1, page_size) - offset.
C6_WritePlanBound ==
    (plan # NoPlan /\ plan.done /\ plan.in.kind = "write") =>
        /\ ~SGt(SizeT(plan.res), SizeT(plan.in.cnt))
        /\ plan.res <= plan.in.wmax
        /\ plan.res <= ToPageEnd(plan.in.offset, plan.in.psize)

\* C6 on the offsets for which offset + page_size does not pass the end of
\* the unsigned int range: there the bound holds
C6_BelowWrap ==
    (plan # NoPlan /\ plan.done /\ plan.in.kind = "write"
        /\ plan.in.offset >= 0) =>
        /\ plan.res >= 1
        /\ ~SGt(SizeT(plan.res), SizeT(plan.in.cnt))
        /\ plan.res <= plan.in.wmax
        /\ plan.res <= ToPageEnd(plan.in.offset, plan.in.psize)

\* the data chunks in x are non-empty and lie end to end from offset o
RECURSIVE Contiguous(_, _)
Contiguous(x, o) ==
    IF x = <<>> THEN TRUE
    ELSE /\ x[1].off = o
         /\ x[1].len >= 1
         /\ Contiguous(Tail(x), o + x[1].len)

\* the bytes moved by the successful chunks in x
RECURSIVE Moved(_)
Moved(x) ==
    IF x = <<>> THEN 0
    ELSE (IF x[1].ok THEN x[1].len ELSE 0) + Moved(Tail(x))

\* C7: every successful at24_write(offset, buf, count) with count > 0 issues
\* non-empty data writes in increasing offset order, contiguous and without
\* overlap, that cover exactly [offset, offset + count); the remaining count
\* ends at exactly 0 and never underflows.  With region_size = 2048,
\* page_size = 16 and max_chunk = 16, write(offset = 10, 12 bytes) issues the
\* data writes (10, 6) and (16, 6).
C7_WriteCovers ==
    \A c \in Callers :
        (rec[c].op = "write" /\ rec[c].count0 > 0) =>
            /\ count[c] >= 0 /\ count[c] <= rec[c].count0
            /\ count[c] = rec[c].count0 - Moved(DataXfers(c))
            /\ off[c] = rec[c].off0 + Moved(DataXfers(c))
            /\ (pc[c] = "done" /\ ret[c] = 0) =>
                   LET x == DataXfers(c)
                   IN  /\ x # <<>>
                       /\ \A i \in 1..Len(x) : x[i].ok
                       /\ Contiguous(x, rec[c].off0)
                       /\ Moved(x) = rec[c].count0
                       /\ count[c] = 0
                       /\ (rec[c].off0 = 10 /\ rec[c].count0 = 12
                             /\ byte_len = 2048 /\ page_size = 16
                             /\ write_max = 16) =>
                              x = <<Xfer("data", 10, 6, TRUE),
                                    Xfer("data", 16, 6, TRUE)>>

\* C7 witness: write(offset = 10, 12 bytes) with max_chunk = 16 has succeeded
C7_Witness ==
    \E c \in Callers :
        /\ rec[c].op = "write" /\ rec[c].off0 = 10 /\ rec[c].count0 = 12
        /\ write_max = 16
        /\ pc[c] = "done" /\ ret[c] = 0

\* C9: when a read or write fails at its k-th data chunk, exactly the first
\* k-1 chunks were transferred (the cursor stands at the end of the last
\* successful chunk), the failing chunk is the last transfer of the call,
\* and the call returns the error, not success.
C9_FailStopsAtChunk ==
    \A c \in Callers :
        LET x == rec[c].xfers
            dx == DataXfers(c)
        IN  /\ \A i \in 1..Len(x) :
                   (x[i].kind = "data" /\ ~x[i].ok) =>
                       /\ i = Len(x)
                       /\ pc[c] \in {"fail", "done"}
                       /\ ret[c] = -ETIMEDOUT
            /\ (pc[c] = "done" /\ InTxn(c) /\ ret[c] # 0) =>
                   /\ dx # <<>>
                   /\ ~dx[Len(dx)].ok
                   /\ \A i \in 1..(Len(dx) - 1) : dx[i].ok
                   /\ Contiguous(dx, rec[c].off0)
                   /\ off[c] = dx[Len(dx)].off
                   /\ off[c] = rec[c].off0 + Moved(dx)
                   /\ count[c] = rec[c].count0 - Moved(dx)
                   /\ ret[c] < 0

\* C9 witness: a call failed at its third data chunk
C9_Witness ==
    \E c \in Callers :
        /\ pc[c] = "done" /\ ret[c] = -ETIMEDOUT
        /\ Len(DataXfers(c)) = 3
        /\ rec[c].count0 > 0

\* callers that hold a runtime-PM reference
PmHolders == {c \in Callers : pc[c] \in {"mutex", "lock_set", "xfer",
                                          "lock_clear", "fail", "unlock"}}

\* C10: when pm_runtime_get_sync fails, the call returns that error at once,
\* makes no transport call, never takes the mutex, and gives back the PM
\* reference it took: the usage count is what it was before the call.
C10_PmFailure ==
    /\ usage_count = Cardinality(PmHolders)
    /\ \A c \in Callers :
           (pc[c] = "done" /\ rec[c].pm_ret < 0) =>
               /\ ret[c] = rec[c].pm_ret
               /\ rec[c].natt = 0
               /\ rec[c].xfers = <<>>
               /\ ~rec[c].took_lock
               /\ lock # c

\* C10 witness: a call with valid arguments returned the error of
\* pm_runtime_get_sync
C10_Witness ==
    \E c \in Callers :
        /\ pc[c] = "done" /\ rec[c].pm_ret < 0 /\ ret[c] < 0
        /\ rec[c].count0 > 1
        /\ usage_count = 0

\* the most transport attempts a call makes when every one of them fails:
\* the retry loop runs once per jiffy up to the deadline and once more, for
\* the lock-set write (if any) and for the first data chunk
AttemptBound(c) ==
    (IF Multi(rec[c].count0) THEN 2 ELSE 1) * (at24_write_timeout + 1)

\* the call of caller c is past the power-management step and not yet back
Running(c) == pc[c] \in {"mutex", "lock_set", "xfer", "lock_clear", "fail",
                         "unlock"}

\* C8: with a transport whose every read and write fails and a clock that
\* advances in each backoff sleep, every at24_read / at24_write with valid
\* non-zero arguments makes a bounded number of transport attempts, comes
\* back, and returns -ETIMEDOUT.
C8_TimesOut ==
    /\ [](\A c \in Callers :
             (transport_dead /\ InTxn(c)) =>
                 /\ rec[c].natt <= AttemptBound(c)
                 /\ pc[c] = "done" => (ret[c] = -ETIMEDOUT /\ rec[c].natt >= 1))
    /\ \A c \in Callers :
           (transport_dead /\ Running(c)) ~> (pc[c] = "done")

\* C8 witness: on the always-failing transport a call of several bytes has
\* returned -ETIMEDOUT after retrying the lock-set write and the data chunk
C8_Witness ==
    \E c \in Callers :
        /\ transport_dead
        /\ pc[c] = "done" /\ ret[c] = -ETIMEDOUT
        /\ at24_write_timeout >= 1
        /\ rec[c].natt = AttemptBound(c)
        /\ rec[c].natt >= 4

\* the lock-set write of the call of caller c has finished with an error
LockSetFailed(c) ==
    \E i \in 1..Len(rec[c].xfers) :
        rec[c].xfers[i].kind = "lock_set" /\ ~rec[c].xfers[i].ok

\* C11: a failed (timed-out) lock-set write is not propagated: the local
\* "locked" is still true, the data chunks are still transferred, and the
\* result of the call is that of the data chunks alone: 0 when all of them
\* succeeded, and then the lock-clear write has been attempted once; a
\* failed lock-clear write does not change a successful result either.
C11_LockErrorsSwallowed ==
    \A c \in Callers :
        LET x == rec[c].xfers
            dx == DataXfers(c)
            lc == CtlXfers(c, "lock_clear")
        IN  /\ LockSetFailed(c) =>
                /\ locked[c]
                /\ pc[c] \in {"xfer", "lock_clear", "unlock", "fail", "done"}
                /\ pc[c] \in {"lock_clear", "unlock"} =>
                       (dx # <<>> /\ \A i \in 1..Len(dx) : dx[i].ok)
                /\ pc[c] = "done" =>
                       /\ dx # <<>>
                       /\ ret[c] = IF \A i \in 1..Len(dx) : dx[i].ok
                                   THEN 0 ELSE -ETIMEDOUT
                       /\ ret[c] = 0 => Len(lc) = 1
            /\ (pc[c] = "done" /\ InTxn(c) /\ lc # <<>>) =>
                   /\ ret[c] = 0
                   /\ x[Len(x)].kind = "lock_clear"

\* C11 witness: a call whose lock-set write and lock-clear write both
\* failed has returned 0 after its data chunk
C11_Witness ==
    \E c \in Callers :
        /\ pc[c] = "done" /\ ret[c] = 0
        /\ LockSetFailed(c)
        /\ Len(DataXfers(c)) >= 1
        /\ \E i \in 1..Len(rec[c].xfers) :
               rec[c].xfers[i].kind = "lock_clear" /\ ~rec[c].xfers[i].ok

\* min(cnt, lim) for a size_t cnt and a positive unsigned int lim
UMin(cnt, lim) == IF cnt < 0 \/ cnt > lim THEN lim ELSE cnt

\* C16: at24_adjust_read_count returns min(count, io_limit) for every
\* offset and count, whatever the offset and the page size, so every read
\* transport call of a transaction has the length
\* min(remaining count, io_limit).
C16_ReadPlan ==
    \A c \in Callers :
        /\ \A o \in PlanOffsets :
               at24_adjust_read_count(mmc_mailbox_io_limit, o, count[c])
                   = UMin(count[c], mmc_mailbox_io_limit)
        /\ rec[c].op = "read" =>
               LET dx == DataXfers(c)
               IN  \A i \in 1..Len(dx) :
                       dx[i].len = UMin(rec[c].count0
                                          - Moved(SubSeq(dx, 1, i - 1)),
                                        mmc_mailbox_io_limit)

\* C16 witness: a read of 12 bytes at offset 10 with io_limit = 4 has
\* finished in three transport calls of 4 bytes
C16_Witness ==
    \E c \in Callers :
        /\ rec[c].op = "read" /\ rec[c].off0 = 10 /\ rec[c].count0 = 12
        /\ mmc_mailbox_io_limit = 4
        /\ pc[c] = "done" /\ ret[c] = 0
        /\ Len(DataXfers(c)) = 3
        /\ \A i \in 1..3 : DataXfers(c)[i].len = 4

\* positions inside a call of at24_regmap_read / at24_regmap_write
TransferPcs == {"lock_set", "xfer", "lock_clear"}

\* what a step of caller c inside a transfer must look like
AttemptStep(c) ==
    LET x == rec[c].xfers
        y == rec'[c].xfers
        fin == Len(y) = Len(x) + 1
        before == elapsed[c] < at24_write_timeout
    IN  /\ rec'[c].natt = rec[c].natt + 1
        /\ fin \/ y = x
        /\ ~fin => /\ before
                   /\ pc'[c] = pc[c]
        /\ fin => /\ SubSeq(y, 1, Len(x)) = x
                  /\ ~y[Len(y)].ok => ~before
                  /\ elapsed'[c] = 0
                  /\ (y[Len(y)].ok /\ pc[c] = "xfer") =>
                         /\ ret'[c] = y[Len(y)].len
                         /\ y[Len(y)].len = ChunkLen(c)

\* C18: every transfer makes at least one transport attempt, also with a
\* timeout of 0; a failed attempt is followed by another one if and only if
\* the time taken at the start of the failed attempt was before the
\* deadline; a successful attempt ends the transfer at once with the chunk
\* length; and the deadline is taken afresh at the start of every transfer,
\* so the retries of an earlier one take nothing from a later one.
C18_RetryRule ==
    /\ [](\A c \in Callers :
             /\ rec[c].natt >= Len(rec[c].xfers)
             /\ at24_write_timeout = 0 => rec[c].natt = Len(rec[c].xfers))
    /\ [][\A c \in Callers :
             /\ (pc[c] = "mutex" /\ pc'[c] \in TransferPcs) => elapsed'[c] = 0
             /\ (pc[c] \in TransferPcs /\ rec'[c] # rec[c]) => AttemptStep(c)
          ]_vars

\* C18 witness: with a deadline one jiffy away the lock-set write used its
\* two attempts and failed, and the data chunk after it was attempted twice
\* as well and succeeded
C18_Witness ==
    \E c \in Callers :
        /\ at24_write_timeout = 1
        /\ pc[c] = "lock_clear"
        /\ LockSetFailed(c)
        /\ Len(rec[c].xfers) = 2
        /\ rec[c].xfers[2].ok
        /\ rec[c].natt = 4

\* caller c is between mutex_lock and mutex_unlock
InCritical(c) == pc[c] \in {"lock_set", "xfer", "lock_clear", "fail", "unlock"}

\* C19: on every return path of at24_read / at24_write the returning caller
\* does not hold the mutex: the mutex is held only by a caller whose
\* transaction is in flight, and a caller waiting for it is admitted.
C19_MutexReleased ==
    /\ [](\A c \in Callers :
             /\ lock = c <=> InCritical(c)
             /\ Idle(c) => lock # c)
    /\ \A c \in Callers : (pc[c] = "mutex") ~> (lock = c)

\* C19 witness: one caller has returned from a timed-out call while the
\* other one, which had to wait, holds the mutex
C19_Witness ==
    \E c, d \in Callers :
        /\ c # d
        /\ pc[c] = "done" /\ ret[c] = -ETIMEDOUT
        /\ rec[c].txn < rec[d].txn
        /\ lock = d
        /\ trace # <<>> /\ trace[1] = rec[c].txn

(***************************************************************************)
(* Session creation and teardown, the shutdown registration                *)
(***************************************************************************)
engvars == <<mmc_mailbox_io_limit, at24_write_timeout, byte_len, page_size,
             write_max, transport_dead, lock, usage_count, pc, op, off,
             count, locked, ret, elapsed, rec, trace, ntxn, plan>>

\* values of the "pagesize" property (u32)
PagesizeValues == {0, 1, DefaultPageSize, 24, U16_RANGE - 1, U16_RANGE,
                   U16_RANGE + DefaultPageSize, 2 * U16_RANGE, U32_MAX}
PagesizeProps == {Absent} \cup {Prop(v) : v \in PagesizeValues}

\* values of the "size" property (u32)
SizeProps == {Absent, Prop(0)}

\* results of devm_regmap_init_i2c / devm_kzalloc / devm_nvmem_register
AllocResults == {0, -ENOMEM}

\* results of the test read at24_read(mmc_mailbox, 0, &test_byte, 1) once
\* its arguments are accepted
TestReadResults == {0, -ETIMEDOUT}

\* "if (!page_size)": the test is made on the local u32
page_size_rejected(psize) == psize = 0

\* mmc_mailbox->page_size = page_size: the u32 is stored in a u16
StoredPageSize(psize) == psize % U16_RANGE

\* the local page_size of mmc_mailbox_probe before the zero test
ProbePageSize(pp, fn_i2c, fn_block) ==
    IF ~fn_i2c /\ ~fn_block THEN 1
    ELSE IF ~pp.present THEN DefaultPageSize ELSE pp.val

ProbeByteLen(sp) == IF ~sp.present THEN ChipByteLen ELSE sp.val

\* write_max with the limit for adapters without I2C_FUNC_I2C
ProbeWriteMaxFor(psize, io_limit, fn_i2c) ==
    LET w == ProbeWriteMax(psize, io_limit)
    IN  IF ~fn_i2c /\ w > I2C_SMBUS_BLOCK_MAX THEN I2C_SMBUS_BLOCK_MAX ELSE w

\* (variant: a probe takes the hook over whoever holds it)
HookNeverClaimed(h) == FALSE

\* "if (pm_power_off != NULL)"
hook_claimed(h) == h # NULL

\* what mmc_mailbox_probe returns, and whether the session stays: the
\* session exists only if 0 is returned
ProbeResult(pp, sp, fn_i2c, fn_block, al, tr) ==
    LET ps == ProbePageSize(pp, fn_i2c, fn_block)
        chk == at24_read_check(0, 1, ProbeByteLen(sp))
        err == IF chk[1] = "ret" THEN chk[2] ELSE tr
    IN  IF page_size_rejected(ps) THEN -EINVAL
        ELSE IF al # 0 THEN al
        ELSE IF err # 0 THEN -ENODEV
        ELSE 0

mmc_mailbox_probe(pp, sp, fn_i2c, fn_block, al, tr) ==
    /\ pwr.pc = "idle"
    /\ nsess < MaxSessions
    /\ MaySucceed(tr = 0)
    /\ LET r == ProbeResult(pp, sp, fn_i2c, fn_block, al, tr)
           ps == ProbePageSize(pp, fn_i2c, fn_block)
           s == nsess + 1
           reg == r = 0 /\ ~hook_claimed(pm_power_off)
       IN  /\ last_probe' =
                 [done |-> TRUE, pagesize |-> pp, size |-> sp,
                  fn_i2c |-> fn_i2c, fn_block |-> fn_block, ret |-> r,
                  session |-> IF r = 0 THEN s ELSE 0,
                  registered |-> reg,
                  page_size |-> StoredPageSize(ps),
                  byte_len |-> ProbeByteLen(sp),
                  write_max |-> ProbeWriteMaxFor(ps, mmc_mailbox_io_limit,
                                                 fn_i2c)]
           /\ nsess' = IF r = 0 THEN s ELSE nsess
           /\ live' = IF r = 0 THEN live \cup {s} ELSE live
           /\ mmc_mb_pwroff_inst' = IF reg THEN s ELSE mmc_mb_pwroff_inst
           /\ pm_power_off' = IF reg THEN Handler ELSE pm_power_off
    /\ UNCHANGED <<engvars, pwr>>

\* (variant: teardown never touches the hook)
HookNeverOurs(h) == FALSE

\* "if (pm_power_off == &mmc_mailbox_do_poweroff)"
hook_is_ours(h) == h = Handler

\* mmc_mailbox_remove of the live session s; the session memory is
\* device-managed and is freed after it
mmc_mailbox_remove(s) ==
    /\ pwr.pc = "idle"
    /\ s \in live
    /\ live' = live \ {s}
    /\ pm_power_off' = IF hook_is_ours(pm_power_off) THEN NULL
                       ELSE pm_power_off
    /\ UNCHANGED <<engvars, nsess, mmc_mb_pwroff_inst, last_probe, pwr>>

\* another subsystem installs its own handler in the free hook
OtherClaim ==
    /\ pwr.pc = "idle"
    /\ pm_power_off = NULL
    /\ pm_power_off' = Other
    /\ UNCHANGED <<engvars, nsess, live, mmc_mb_pwroff_inst, last_probe, pwr>>

\* and takes it out again
OtherRelease ==
    /\ pwr.pc = "idle"
    /\ pm_power_off = Other
    /\ pm_power_off' = NULL
    /\ UNCHANGED <<engvars, nsess, live, mmc_mb_pwroff_inst, last_probe, pwr>>

(***************************************************************************)
(* Shutdown handshake: mmc_mailbox_do_poweroff, called by the kernel       *)
(* through pm_power_off when the system powers off                         *)
(***************************************************************************)
PwrEvent(ev, o, v, n, ok) ==
    [ev |-> ev, off |-> o, val |-> v, len |-> n, ok |-> ok]

\* (variant: the write is repeated until it succeeds)
PowerOffRetry(ok) == IF ok THEN "delay" ELSE "write"

\* after regmap_bulk_write, whatever its result: mdelay(1000)
PowerOffAfterWrite(ok) == "delay"

\* pm_power_off(): entry of mmc_mailbox_do_poweroff.  With a NULL
\* mmc_mb_pwroff_inst the dev_err argument dereferences the NULL pointer:
\* the kernel faults, or the handler returns
PowerOffCall ==
    /\ pwr.pc = "idle"
    /\ hook_is_ours(pm_power_off)
    /\ IF mmc_mb_pwroff_inst = 0
       THEN \E o \in {"oops", "returned"} : pwr' = [pwr EXCEPT !.pc = o]
       ELSE pwr' = [pwr EXCEPT !.pc = "write"]
    /\ UNCHANGED <<engvars, nsess, live, pm_power_off, mmc_mb_pwroff_inst,
                   last_probe>>

\* regmap_bulk_write(mmc_mb_pwroff_inst->regmap, MB_FPGA_STATUS_OFFS, &stat,
\* 1), its result unused.  Through a session that has been torn down this is
\* a use of freed memory: the kernel faults, or the write goes out
PowerOffWrite ==
    /\ pwr.pc = "write"
    /\ \E ok \in BOOLEAN, freed \in {"oops", "write"} :
         /\ MaySucceed(ok)
         /\ IF mmc_mb_pwroff_inst \notin live /\ freed = "oops"
            THEN pwr' = [pwr EXCEPT !.pc = "oops"]
            ELSE pwr' = [pc |-> PowerOffAfterWrite(ok),
                         log |-> Append(pwr.log,
                                   PwrEvent("write", MB_FPGA_STATUS_OFFS,
                                            MB_FPGA_STATUS_SHDN_FINISHED, 1,
                                            ok))]
    /\ UNCHANGED <<engvars, nsess, live, pm_power_off, mmc_mb_pwroff_inst,
                   last_probe>>

\* mdelay(1000)
PowerOffDelay ==
    /\ pwr.pc = "delay"
    /\ pwr' = [pc |-> "warn",
               log |-> Append(pwr.log, PwrEvent("mdelay", 0, 0, 0, TRUE))]
    /\ UNCHANGED <<engvars, nsess, live, pm_power_off, mmc_mb_pwroff_inst,
                   last_probe>>

\* WARN_ON(1), then the handler returns
PowerOffWarn ==
    /\ pwr.pc = "warn"
    /\ pwr' = [pc |-> "returned",
               log |-> Append(pwr.log, PwrEvent("WARN_ON", 0, 0, 0, TRUE))]
    /\ UNCHANGED <<engvars, nsess, live, pm_power_off, mmc_mb_pwroff_inst,
                   last_probe>>

mmc_mailbox_do_poweroff ==
    PowerOffCall \/ PowerOffWrite \/ PowerOffDelay \/ PowerOffWarn

(***************************************************************************)
(* Specifications of the device life cycle                                 *)
(***************************************************************************)
\* the module is loaded (mmc_mailbox_init) and no device is bound yet
InitLoaded ==
    /\ byte_len = ChipByteLen
    /\ page_size = DefaultPageSize
    /\ write_max = ProbeWriteMax(page_size, mmc_mailbox_io_limit)
    /\ transport_dead \in BOOLEAN
    /\ lock = "none"
    /\ usage_count = 0
    /\ pc = [c \in Callers |-> "idle"]
    /\ op = [c \in Callers |-> "none"]
    /\ off = [c \in Callers |-> 0]
    /\ count = [c \in Callers |-> 0]
    /\ locked = [c \in Callers |-> FALSE]
    /\ ret = [c \in Callers |-> 0]
    /\ elapsed = [c \in Callers |-> 0]
    /\ rec = [c \in Callers |-> NoRec]
    /\ trace = <<>>
    /\ ntxn = 0
    /\ plan = NoPlan
    /\ nsess = 0
    /\ live = {}
    /\ pm_power_off = NULL
    /\ mmc_mb_pwroff_inst = 0
    /\ last_probe = NoProbe
    /\ pwr = PwrIdle

InitDev ==
    /\ mmc_mailbox_io_limit = DefaultIoLimit
    /\ at24_write_timeout = 0
    /\ InitLoaded

\* Devices without a "pagesize" property come and go, a caller uses a live
\* session (two bytes at offset 0), the system powers off
NextDev ==
    \/ \E sp \in SizeProps, al \in AllocResults, tr \in TestReadResults :
         mmc_mailbox_probe(Absent, sp, TRUE, TRUE, al, tr)
    \/ \E s \in live : mmc_mailbox_remove(s)
    \/ OtherClaim
    \/ OtherRelease
    \/ mmc_mailbox_do_poweroff
    \/ \E o \in {"read", "write"} : live # {} /\ Call("a", o, 0, 2)
    \/ Progress("a")

SpecDev == InitDev /\ [][NextDev]_vars

InitProbe ==
    /\ mmc_mailbox_io_limit \in IoLimits
    /\ at24_write_timeout = 0
    /\ InitLoaded

\* Devices with any "pagesize" property, on any adapter, come and go
NextProbe ==
    \/ \E pp \in PagesizeProps, fi, fb \in BOOLEAN, tr \in TestReadResults :
         mmc_mailbox_probe(pp, Absent, fi, fb, 0, tr)
    \/ \E s \in live : mmc_mailbox_remove(s)
    \/ OtherClaim
    \/ OtherRelease

SpecProbe == InitProbe /\ [][NextProbe]_vars

(***************************************************************************)
(* Properties of the device life cycle                                     *)
(***************************************************************************)
Sessions == 1..MaxSessions

\* session s holds the shutdown registration
Holder(s) ==
    /\ s \in live
    /\ mmc_mb_pwroff_inst = s
    /\ pm_power_off = Handler

\* this step is the teardown of session s
Teardown(s) == s \in live /\ s \notin live'

\* this step is a call of mmc_mailbox_probe
ProbeStep == last_probe' # last_probe \/ nsess' # nsess

\* C12: the teardown of a session that does not hold the shutdown
\* registration, while another live session holds it, leaves the power-off
\* hook (and the registered-session reference) as they are.
C12_ForeignTeardownKeepsHook ==
    [][\A s \in Sessions :
          (Teardown(s) /\ \E t \in live \ {s} : Holder(t)) =>
              /\ pm_power_off' = pm_power_off
              /\ mmc_mb_pwroff_inst' = mmc_mb_pwroff_inst]_vars

\* C13: the teardown of the session that holds the shutdown registration
\* clears it: afterwards the hook is not this module's handler and the
\* registered-session reference does not refer to the torn-down session.
C13_HolderTeardownClears ==
    [][\A s \in Sessions :
          (Teardown(s) /\ Holder(s)) =>
              /\ pm_power_off' # Handler
              /\ mmc_mb_pwroff_inst' # s]_vars

\* C14: a probe that finds the hook claimed, by another subsystem or by
\* another mailbox session, changes neither the hook nor the
\* registered-session reference, and the session it creates is live all the
\* same; at most one session holds the registration.
C14_FirstRegistrantWins ==
    /\ [](Cardinality({s \in Sessions : Holder(s)}) <= 1)
    /\ [](last_probe.done =>
             /\ last_probe.registered => last_probe.ret = 0
             /\ last_probe.ret = 0 <=> last_probe.session # 0)
    /\ [][(ProbeStep /\ pm_power_off # NULL) =>
             /\ pm_power_off' = pm_power_off
             /\ mmc_mb_pwroff_inst' = mmc_mb_pwroff_inst
             /\ ~last_probe'.registered
             /\ last_probe'.ret = 0 => last_probe'.session \in live']_vars

\* C14 witness: a second session has been created while the first one holds
\* the registration
C14_Witness ==
    /\ last_probe.done /\ last_probe.ret = 0
    /\ last_probe.session = 2 /\ ~last_probe.registered
    /\ Holder(1) /\ live = {1, 2}

\* what the handler does when called with a registered session, in order
HandshakeOrder == <<"write", "mdelay", "WARN_ON">>

\* C15: called with a registered session, mmc_mailbox_do_poweroff issues
\* exactly one raw write of MB_FPGA_STATUS_SHDN_FINISHED to
\* MB_FPGA_STATUS_OFFS, never repeated, also when it fails; it issues no
\* lock-set / lock-clear write and does not take the mutex (it runs while a
\* caller holds it); the delay and the WARN_ON come after the write.
C15_ShutdownHandshake ==
    /\ [](mmc_mb_pwroff_inst \in live =>
             LET l == pwr.log
             IN  /\ Len(l) <= 3
                 /\ \A i \in 1..Len(l) : l[i].ev = HandshakeOrder[i]
                 /\ l # <<>> =>
                        /\ l[1].off = MB_FPGA_STATUS_OFFS
                        /\ l[1].val = MB_FPGA_STATUS_SHDN_FINISHED
                        /\ l[1].len = 1
                 /\ pwr.pc \in {"idle", "write"} => l = <<>>
                 /\ pwr.pc = "delay" => Len(l) = 1
                 /\ pwr.pc = "warn" => Len(l) = 2
                 /\ pwr.pc = "returned" => Len(l) = 3
                 /\ pwr.pc # "oops")
    /\ [][pwr' # pwr =>
             /\ lock' = lock
             /\ rec' = rec
             /\ trace' = trace
             /\ usage_count' = usage_count]_vars

\* C15 witness: the handler has returned after a write that failed, while a
\* caller was inside its critical section
C15_Witness ==
    /\ pwr.pc = "returned"
    /\ Len(pwr.log) = 3
    /\ ~pwr.log[1].ok
    /\ mmc_mb_pwroff_inst \in live
    /\ lock = "a"

\* C17: for every value of the "pagesize" property that mmc_mailbox_probe
\* accepts, the page_size stored in the session (a u16) is > 0.
C17_StoredPageSizePositive ==
    (last_probe.done /\ last_probe.ret = 0) => last_probe.page_size > 0

\* C20: whenever pm_power_off is this module's handler,
\* mmc_mb_pwroff_inst is not NULL and refers to a session that has not been
\* torn down, so the handler is never run through the hook with a NULL or
\* torn-down session.
C20_HookHasLiveSession ==
    /\ pm_power_off = Handler =>
           /\ mmc_mb_pwroff_inst # 0
           /\ mmc_mb_pwroff_inst \in live
    /\ pwr.pc # "idle" =>
           /\ mmc_mb_pwroff_inst \in live
           /\ pwr.pc # "oops"

\* C20 witness: the first session, registered, has been torn down, a later
\* session has registered, and the handler runs with it
C20_Witness ==
    /\ 1 \notin live
    /\ nsess >= 2
    /\ mmc_mb_pwroff_inst > 1
    /\ mmc_mb_pwroff_inst \in live
    /\ pm_power_off = Handler
    /\ pwr.pc = "write"

====
